---- MODULE Spec2Model ----
(***************************************************************************)
(* Model of the homework-app proxy: the Flask handlers of src/api/index.py *)
(* (validation, prompt compilation, the single outbound call to the        *)
(* generation service, response normalisation) and the two pass-through    *)
(* handlers of src/main.py and of src/index.py.                            *)
(*                                                                         *)
(* A behaviour is the life of one request: Init is the process after       *)
(* import (API_KEY read from the environment) with one request received;   *)
(* one action per Flask view function handles it.  A view that rejects the *)
(* request returns in one step; a view that calls the generation service   *)
(* takes a step up to requests.post, which has no timeout and blocks until *)
(* the service answers or the transport fails, and a second step from the  *)
(* reply to its return.  The handlers share no state across requests, so   *)
(* one request per behaviour loses nothing.                                *)
(*                                                                         *)
(* Representation.  A JSON object is a function from its keys to values.   *)
(* Strings the code only compares or interpolates are TLA+ strings;        *)
(* strings the code inspects character by character (the environment       *)
(* value, the year-end difficulty, a string questionCount) are sequences   *)
(* of one-character strings; strings the code strips of '/' are sequences  *)
(* of segments, where "/" is a segment of its own.  A prompt, and an error *)
(* message, is the sequence of the pieces the code concatenates.           *)
(***************************************************************************)
EXTENDS Integers, Sequences, FiniteSets, TLC

VARIABLES
    environ,    \* os.environ, restricted to GOOGLE_API_KEY
    req,        \* the request received: [app, app_view, method, path, data]
    pc,         \* "received" | "awaiting_reply" (blocked in requests.post) | "done"
    resp,       \* the response sent (NoResponse until done)
    ran,        \* the task handlers invoked for this request, in order
    prompt,     \* the prompt compiled for this request (<<>> if none)
    posts,      \* the payloads handed to requests.post, in order
    replies     \* what the generation service did with each post

vars == <<environ, req, pc, resp, ran, prompt, posts, replies>>

----------------------------------------------------------------------------
(* Bounds of the model *)

\* longest previous_questions list in a request
MaxPrev == 2
\* longest topic list supplied for one subject of a year-end request
MaxTopics == 2
\* longest questions list and longest answers list of an evaluate request
MaxQuestions == 2
\* largest integer questionCount of a question-paper request (besides 20)
MaxCount == 16

----------------------------------------------------------------------------
(* Python helpers *)

EmptyDict == [k \in {} |-> ""]

Has(d, k) == k \in DOMAIN d

\* dict.get(k, default)
Get(d, k, default) == IF k \in DOMAIN d THEN d[k] ELSE default

\* Characters.  A character a TLA+ string cannot hold (one with no escape of
\* its own, or outside ASCII) is written as its JSON escape \uXXXX and counts
\* as one character.  Besides ASCII the strings of the model use the
\* whitespace characters below and four characters that show how the code
\* treats letters and digits outside ASCII.
BULLET == "\\u2022"
E_ACUTE_CAPITAL == "\\u00c9"
E_ACUTE_SMALL == "\\u00e9"
\* ARABIC-INDIC DIGIT THREE: a decimal digit, int() reads it as 3
ARABIC_THREE == "\\u0663"
\* SUPERSCRIPT TWO: alphanumeric (isdigit) but no decimal digit, int() refuses it
SUPERSCRIPT_TWO == "\\u00b2"

SetMin(S) == CHOOSE m \in S : \A n \in S : m <= n
SetMax(S) == CHOOSE m \in S : \A n \in S : n <= m

\* the characters str.strip() and int() treat as whitespace (str.isspace)
Whitespace ==
    { " ", "\t", "\n", "\r", "\f", "\\u000b", "\\u001c", "\\u001d", "\\u001e", "\\u001f",
      "\\u0085", "\\u00a0", "\\u1680", "\\u2000", "\\u2001", "\\u2002", "\\u2003",
      "\\u2004", "\\u2005", "\\u2006", "\\u2007", "\\u2008", "\\u2009", "\\u200a",
      "\\u2028", "\\u2029", "\\u202f", "\\u205f", "\\u3000" }

\* str.strip(chars) on a sequence of characters (or of segments)
StripOf(s, chars) ==
    LET keep == {i \in 1..Len(s) : s[i] \notin chars}
    IN  IF keep = {} THEN <<>> ELSE SubSeq(s, SetMin(keep), SetMax(keep))

\* str.strip()
Strip(s) == StripOf(s, Whitespace)

UpperLetters ==
    << "A", "B", "C", "D", "E", "F", "G", "H", "I", "J", "K", "L", "M",
       "N", "O", "P", "Q", "R", "S", "T", "U", "V", "W", "X", "Y", "Z" >>
LowerLetters ==
    << "a", "b", "c", "d", "e", "f", "g", "h", "i", "j", "k", "l", "m",
       "n", "o", "p", "q", "r", "s", "t", "u", "v", "w", "x", "y", "z" >>

UpperCase == {UpperLetters[i] : i \in 1..26} \cup {E_ACUTE_CAPITAL}
LowerCase == {LowerLetters[i] : i \in 1..26} \cup {E_ACUTE_SMALL}
Digits == {"0", "1", "2", "3", "4", "5", "6", "7", "8", "9"}

\* str.lower() on one character
LowerChar(c) ==
    IF \E i \in 1..26 : UpperLetters[i] = c
    THEN LowerLetters[CHOOSE i \in 1..26 : UpperLetters[i] = c]
    ELSE IF c = E_ACUTE_CAPITAL THEN E_ACUTE_SMALL
    ELSE c

\* str.lower()
Lower(s) == [i \in 1..Len(s) |-> LowerChar(s[i])]

\* str.isalnum() on one character
IsAlnum(c) == c \in UpperCase \cup LowerCase \cup Digits \cup {ARABIC_THREE, SUPERSCRIPT_TWO}

\* other difficulty strings of the model
WORD_EASY == <<"e", "a", "s", "y">>
WORD_HARDEST == <<"h", "a", "r", "d", "e", "s", "t">>
WORD_MED1 == <<"m", "e", "d", "1">>
WORD_MIXED == <<" ", "M", "e", "-", "D", "!">>
WORD_EXAMPLE == <<"M", "e", "d", "-", "H", "a", "r", "d", " ", "M", "i", "x", "!">>

\* the keys of difficulty_map, as sequences of characters
W_MEDIUM == <<"m", "e", "d", "i", "u", "m">>
W_MED == <<"m", "e", "d">>
W_MEDIUMHARD == <<"m", "e", "d", "i", "u", "m", "h", "a", "r", "d">>
W_MEDIUMHARDMIX == <<"m", "e", "d", "i", "u", "m", "h", "a", "r", "d", "m", "i", "x">>
W_MEDIUMTOHARDMIX == <<"m", "e", "d", "i", "u", "m", "t", "o", "h", "a", "r", "d", "m", "i", "x">>
W_HARD == <<"h", "a", "r", "d">>

----------------------------------------------------------------------------
(* JSON request bodies *)

\* request.get_json() returned None (a body of null, or with silent=True no JSON)
NoneData == [json |-> "null"]
\* request.get_json() returned a dict
ObjectData(d) == [json |-> "object", obj |-> d]

\* "not data": None and {} are falsy
Falsy(data) == data.json = "null" \/ DOMAIN data.obj = {}

\* "data or {}"
OrEmpty(data) == IF Falsy(data) THEN EmptyDict ELSE data.obj

----------------------------------------------------------------------------
(* Responses *)

NoResponse == [kind |-> "none"]

\* jsonify(body), status
JsonResponse(body, status) == [kind |-> "json", status |-> status, body |-> body]

\* ('', 204)
EmptyResponse(status) == [kind |-> "empty", status |-> status]

\* an exception that leaves the view function: Flask answers 500 with its own
\* (non-JSON) error page
Unhandled(exc) == [kind |-> "exception", status |-> 500, exception |-> exc]

_json_error(message, status_code) == JsonResponse([error |-> message], status_code)

\* sep.join(s), as the sequence of its pieces
Join(sep, s) ==
    IF s = <<>> THEN <<>>
    ELSE [i \in 1..(2 * Len(s) - 1) |-> IF i % 2 = 1 THEN s[(i + 1) \div 2] ELSE sep]

RECURSIVE Flatten(_)
\* the concatenation of a sequence of sequences
Flatten(ss) == IF ss = <<>> THEN <<>> ELSE Head(ss) \o Flatten(Tail(ss))

\* the elements of a sequence
Range(s) == {s[i] : i \in 1..Len(s)}

\* what a handler leaves behind: the response, the compiled prompt, the posts
\* and the service's replies
Outcome(r, p, sent, got) == [resp |-> r, prompt |-> p, posts |-> sent, replies |-> got]

NoCall(r, p) == Outcome(r, p, <<>>, <<>>)

----------------------------------------------------------------------------
(* The generation service *)

\* json.loads on the generated texts of the model
json_loads(text) ==
    CASE text = "{\"questions\": []}" ->
            [ok |-> TRUE, value |-> [questions |-> <<>>]]
      [] text = "{\"questions\": [{\"type\": \"free-text\", \"question\": \"Q\"}]}" ->
            [ok |-> TRUE, value |-> [questions |-> <<[type |-> "free-text", question |-> "Q"]>>]]
      [] text = "{\"evaluation\": []}" ->
            [ok |-> TRUE, value |-> [evaluation |-> <<>>]]
      [] text = "{\"evaluation\": [true]}" ->
            [ok |-> TRUE, value |-> [evaluation |-> <<TRUE>>]]
      [] text = "{\"evaluation\": [true, false]}" ->
            [ok |-> TRUE, value |-> [evaluation |-> <<TRUE, FALSE>>]]
      [] text = "{\"evaluation\": [true, false, true]}" ->
            [ok |-> TRUE, value |-> [evaluation |-> <<TRUE, FALSE, TRUE>>]]
      [] text = "{\"error\": \"refused\"}" ->
            [ok |-> TRUE, value |-> [error |-> <<"refused">>]]
      [] OTHER -> [ok |-> FALSE, value |-> EmptyDict]

GeneratedTexts ==
    { "{\"questions\": []}",
      "{\"questions\": [{\"type\": \"free-text\", \"question\": \"Q\"}]}",
      "{\"evaluation\": []}",
      "{\"evaluation\": [true]}",
      "{\"evaluation\": [true, false]}",
      "{\"evaluation\": [true, false, true]}",
      "{\"error\": \"refused\"}",
      "Think about what magnets attract.",
      "{\"questions\": [",
      "" }

\* a candidate carrying generated text
Candidate(text) == [content |-> [parts |-> <<[text |-> text]>>]]

\* bodies the service may answer with status 200 that decode as a JSON object
GeminiBodies ==
    { [promptFeedback |-> "BLOCKED"],
      [candidates |-> <<>>],
      [candidates |-> <<[finishReason |-> "SAFETY"]>>],
      [candidates |-> <<[content |-> [parts |-> <<>>]]>>] }
    \cup { [candidates |-> <<Candidate(t)>>] : t \in GeneratedTexts }

\* what requests.post may do: raise (no connection), or return a response
\* object with status_code, text, and json() either raising or returning a dict
Replies ==
    { [raises |-> TRUE, status_code |-> 0, text |-> "", decodes |-> FALSE, json |-> EmptyDict] }
    \cup { [raises |-> FALSE, status_code |-> sc, text |-> "{\"error\": {\"status\": \"UNAVAILABLE\"}}",
            decodes |-> TRUE, json |-> [error |-> "UNAVAILABLE"]] : sc \in {400, 503} }
    \cup { [raises |-> FALSE, status_code |-> 200, text |-> "<html>", decodes |-> FALSE, json |-> EmptyDict] }
    \cup { [raises |-> FALSE, status_code |-> 200, text |-> "(json)", decodes |-> TRUE, json |-> g] :
            g \in GeminiBodies }

\* response.raise_for_status() raises HTTPError
RaisesForStatus(response) == response.status_code >= 400 /\ response.status_code < 600

\* gemini_response['candidates'][0]['content']['parts'][0]['text'] raises
\* KeyError or IndexError
TextLookupRaises(g) ==
    \/ ~Has(g.candidates[1], "content")
    \/ g.candidates[1].content.parts = <<>>

\* generation_config of a structured task, the schema named by its root key
JsonConfig(root) == [responseMimeType |-> "application/json", responseSchema |-> root]

\* generation_config=None
NoConfig == EmptyDict

----------------------------------------------------------------------------
(* src/api/index.py *)

\* os.environ.get("GOOGLE_API_KEY", "").strip()
API_KEY == Strip(Get(environ, "GOOGLE_API_KEY", <<>>))

Payload(p, generation_config) ==
    IF DOMAIN generation_config # {}
    THEN [contents |-> <<[parts |-> <<[text |-> p]>>]>>, generationConfig |-> generation_config]
    ELSE [contents |-> <<[parts |-> <<[text |-> p]>>]>>]

\* GeminiResult forwarding the generated text when it is not the JSON asked for
GeminiResult_forwarding_text(generation_config, response) ==
    IF response.raises
    THEN JsonResponse([error |-> <<"An internal server error occurred.">>], 500)
    ELSE IF RaisesForStatus(response)
    THEN JsonResponse([error |-> <<"An error occurred with the AI service.">>,
                       details |-> response.text], response.status_code)
    ELSE IF ~response.decodes
    THEN JsonResponse([error |-> <<"An internal server error occurred.">>], 500)
    ELSE IF ~Has(response.json, "candidates") \/ response.json.candidates = <<>>
    THEN JsonResponse([error |-> <<"Received an invalid response from the AI service.">>], 500)
    ELSE IF TextLookupRaises(response.json)
    THEN JsonResponse([error |-> <<"An internal server error occurred.">>], 500)
    ELSE LET content_text == response.json.candidates[1].content.parts[1].text
         IN  IF /\ DOMAIN generation_config # {}
                /\ Get(generation_config, "responseMimeType", "") = "application/json"
                /\ json_loads(content_text).ok
             THEN JsonResponse(json_loads(content_text).value, 200)
             ELSE JsonResponse([text |-> content_text], 200)

\* the response call_gemini_api builds from what requests.post did
GeminiResult(generation_config, response) ==
    IF response.raises
    THEN JsonResponse([error |-> <<"An internal server error occurred.">>], 500)
    ELSE IF RaisesForStatus(response)
    THEN JsonResponse([error |-> <<"An error occurred with the AI service.">>,
                       details |-> response.text], response.status_code)
    ELSE IF ~response.decodes
    THEN JsonResponse([error |-> <<"An internal server error occurred.">>], 500)
    ELSE IF ~Has(response.json, "candidates") \/ response.json.candidates = <<>>
    THEN JsonResponse([error |-> <<"Received an invalid response from the AI service.">>], 500)
    ELSE IF TextLookupRaises(response.json)
    THEN JsonResponse([error |-> <<"An internal server error occurred.">>], 500)
    ELSE LET content_text == response.json.candidates[1].content.parts[1].text
         IN  IF /\ DOMAIN generation_config # {}
                /\ Get(generation_config, "responseMimeType", "") = "application/json"
             THEN IF json_loads(content_text).ok
                  THEN JsonResponse(json_loads(content_text).value, 200)
                  ELSE JsonResponse([error |-> <<"Failed to parse LLM JSON response">>], 500)
             ELSE JsonResponse([text |-> content_text], 200)

\* call_gemini_api without its test of API_KEY
call_gemini_api_unguarded(p, generation_config, response) ==
    Outcome(GeminiResult(generation_config, response), p,
            <<Payload(p, generation_config)>>, <<response>>)

\* call_gemini_api posting a second time when the first answer is an error
call_gemini_api_retrying(p, generation_config, response) ==
    IF API_KEY = <<>>
    THEN NoCall(JsonResponse([error |-> <<"API key is not configured on the server.">>], 500), p)
    ELSE IF GeminiResult(generation_config, response).status = 200
    THEN Outcome(GeminiResult(generation_config, response), p,
                 <<Payload(p, generation_config)>>, <<response>>)
    ELSE Outcome(GeminiResult(generation_config, response), p,
                 <<Payload(p, generation_config), Payload(p, generation_config)>>,
                 <<response, response>>)

call_gemini_api(p, generation_config, response) ==
    IF API_KEY = <<>>
    THEN NoCall(JsonResponse([error |-> <<"API key is not configured on the server.">>], 500), p)
    ELSE Outcome(GeminiResult(generation_config, response), p,
                 <<Payload(p, generation_config)>>, <<response>>)

_handle_hint(data, response) ==
    IF Falsy(data) \/ ~Has(data.obj, "question")
    THEN NoCall(_json_error(<<"Missing 'question' in request.">>, 400), <<>>)
    ELSE call_gemini_api(
            << "Provide a simple one-sentence hint for a Primary 3 student for the following question, ",
               "but do not give away the answer: \"", data.obj.question, "\"" >>,
            NoConfig, response)

\* [f"- {q}" for q in previous_questions] joined by "\n"
PreviousQuestionsText(previous_questions) ==
    LET n == Len(previous_questions)
    IN  [i \in 1..(IF n = 0 THEN 0 ELSE 3 * n - 1) |->
            IF i % 3 = 1 THEN "- "
            ELSE IF i % 3 = 2 THEN previous_questions[(i + 1) \div 3]
            ELSE "\n"]

\* the empty string in the representation of a field's value: 'difficulty' is a
\* sequence of characters in every request, the other fields are TLA+ strings
EmptyString(field) == IF field = "difficulty" THEN <<>> ELSE ""

required_fields == <<"classLevel", "subject", "topic", "difficulty">>

english_mcq_topics == {"Vocab MCQ", "Grammar MCQ", "Grammar Cloze", "Comprehension Cloze"}

comprehension_topics == {"Comprehension (Open-Ended)"}

\* [field for field in required_fields if field not in data or not data[field]]
missing_fields(d) ==
    LET Missing(field) == ~Has(d, field) \/ d[field] = EmptyString(field)
    IN  SelectSeq(required_fields, Missing)

\* the all-multiple-choice variant for every topic of English
QuizBasePrompt_any_english_topic(d) ==
    IF Get(d, "subject", "") = "English"
    THEN << "Act as a Primary School teacher in Singapore. ",
            "Generate a quiz with exactly 5 'single-choice' multiple-choice questions for a ",
            d.classLevel, " student. ",
            "The subject is ", d.subject, " and the specific topic is ", d.topic, ". ",
            "The difficulty level should be " >> \o d.difficulty \o << ". ",
            "Each question must have four options with exactly one correct answer. ",
            "Ensure the questions are aligned with the Singapore MOE syllabus. " >>
    ELSE << "Act as a Primary School teacher in Singapore. ",
            "Generate a quiz with exactly 5 questions for a ", d.classLevel, " student. ",
            "The subject is ", d.subject, " and the specific topic is ", d.topic, ". ",
            "The difficulty level should be " >> \o d.difficulty \o << ". ",
            "The quiz must have this structure: ",
            "1. Two 'single-choice' questions (select one correct answer from 4 options). ",
            "2. One 'multi-select' question (select one or more correct answers from 4 options). ",
            "3. Two 'free-text' questions (open-ended questions requiring a written answer). ",
            "Ensure the questions are aligned with the Singapore MOE syllabus. " >>

QuizBasePrompt(d) ==
    IF Get(d, "subject", "") = "English" /\ Get(d, "topic", "") \in english_mcq_topics
    THEN << "Act as a Primary School teacher in Singapore. ",
            "Generate a quiz with exactly 5 'single-choice' multiple-choice questions for a ",
            d.classLevel, " student. ",
            "The subject is ", d.subject, " and the specific topic is ", d.topic, ". ",
            "The difficulty level should be " >> \o d.difficulty \o << ". ",
            "Each question must have four options with exactly one correct answer. ",
            "Ensure the questions are aligned with the Singapore MOE syllabus. " >>
    ELSE << "Act as a Primary School teacher in Singapore. ",
            "Generate a quiz with exactly 5 questions for a ", d.classLevel, " student. ",
            "The subject is ", d.subject, " and the specific topic is ", d.topic, ". ",
            "The difficulty level should be " >> \o d.difficulty \o << ". ",
            "The quiz must have this structure: ",
            "1. Two 'single-choice' questions (select one correct answer from 4 options). ",
            "2. One 'multi-select' question (select one or more correct answers from 4 options). ",
            "3. Two 'free-text' questions (open-ended questions requiring a written answer). ",
            "Ensure the questions are aligned with the Singapore MOE syllabus. " >>

QuizTemplatePart(d) ==
    IF Get(d, "subject", "") = "English" /\ Get(d, "template", "") # ""
    THEN << "\nUse the following question template for formatting:\n", d.template >>
    ELSE <<>>

QuizImagePart(d) ==
    IF Get(d, "subject", "") = "English" /\ Get(d, "topic", "") \in comprehension_topics
    THEN << "\nAll five questions must be based on the same image. Include an 'image' field with the same URL for each question." >>
    ELSE <<>>

QuizHistoryPart(d) ==
    LET previous_questions == Get(d, "previous_questions", <<>>)
    IN  IF previous_questions # <<>>
        THEN << "\nIMPORTANT: To ensure variety, do not generate any of the following questions that the student has already answered for this topic:\n" >>
             \o PreviousQuestionsText(previous_questions)
             \o << "\n",
                   "Also, try to create questions with different patterns and structures than the ones listed above." >>
        ELSE <<>>

QuizFormatPart ==
    << "\nReturn a single JSON object with a key 'questions', which is an array of 5 question objects. ",
       "Each question object must have: a 'type' (string: 'single-choice', 'multi-select', or 'free-text'), ",
       "a 'question' (string), and for choice questions, an 'options' array of 4 strings." >>

_handle_generate_quiz(data, response) ==
    IF Falsy(data)
    THEN NoCall(_json_error(<<"Request body must be JSON.">>, 400), <<>>)
    ELSE IF missing_fields(data.obj) # <<>>
    THEN NoCall(_json_error(<<"Missing or empty required fields: ">>
                            \o Join(", ", missing_fields(data.obj)), 400), <<>>)
    ELSE call_gemini_api(
            QuizBasePrompt(data.obj) \o QuizTemplatePart(data.obj) \o QuizImagePart(data.obj)
                \o QuizHistoryPart(data.obj) \o QuizFormatPart,
            JsonConfig("questions"), response)

\* the value of a decimal digit
DigitValue(c) ==
    CASE c = "0" -> 0 [] c = "1" -> 1 [] c = "2" -> 2 [] c = "3" -> 3 [] c = "4" -> 4
      [] c = "5" -> 5 [] c = "6" -> 6 [] c = "7" -> 7 [] c = "8" -> 8 [] c = "9" -> 9
      [] c = ARABIC_THREE -> 3

RECURSIVE DecimalValue(_)
\* the number a sequence of digits denotes
DecimalValue(ds) ==
    IF ds = <<>> THEN 0
    ELSE 10 * DecimalValue(SubSeq(ds, 1, Len(ds) - 1)) + DigitValue(ds[Len(ds)])

\* a decimal digit for int(): an ASCII digit or another character of category Nd
IsDigit(c) == c \in Digits \cup {ARABIC_THREE}

\* the whitespace int() ignores around a number: that of str.strip() but for
\* the four separators U+001C to U+001F
IntWhitespace == Whitespace \ {"\\u001c", "\\u001d", "\\u001e", "\\u001f"}

\* int(s) for a string: surrounding whitespace is ignored, one sign is allowed,
\* then digits, single underscores allowed between digits
IntOfString(s) ==
    LET t == StripOf(s, IntWhitespace)
        signed == t # <<>> /\ t[1] \in {"+", "-"}
        body == IF signed THEN SubSeq(t, 2, Len(t)) ELSE t
        wellFormed ==
            /\ body # <<>>
            /\ \A i \in 1..Len(body) : IsDigit(body[i]) \/ body[i] = "_"
            /\ IsDigit(body[1]) /\ IsDigit(body[Len(body)])
            /\ \A i \in 1..(Len(body) - 1) : ~(body[i] = "_" /\ body[i + 1] = "_")
        magnitude == DecimalValue(SelectSeq(body, IsDigit))
    IN  IF ~wellFormed THEN [ok |-> FALSE, exc |-> "ValueError", value |-> 0]
        ELSE [ok |-> TRUE, exc |-> "", value |-> IF signed /\ t[1] = "-" THEN 0 - magnitude ELSE magnitude]

\* int(v) for a JSON value: an integer, a boolean, a finite float (given in
\* tenths, truncated toward zero), an infinite float of either sign
\* (OverflowError), NaN
\* (ValueError), a string, or null, an array or an object (TypeError)
int(v) ==
    CASE v.t = "int" -> [ok |-> TRUE, exc |-> "", value |-> v.n]
      [] v.t = "bool" -> [ok |-> TRUE, exc |-> "", value |-> IF v.b THEN 1 ELSE 0]
      [] v.t = "float" -> [ok |-> TRUE, exc |-> "",
                           value |-> IF v.tenths >= 0 THEN v.tenths \div 10
                                     ELSE 0 - ((0 - v.tenths) \div 10)]
      [] v.t \in {"inf", "-inf"} -> [ok |-> FALSE, exc |-> "OverflowError", value |-> 0]
      [] v.t = "nan" -> [ok |-> FALSE, exc |-> "ValueError", value |-> 0]
      [] v.t = "str" -> IntOfString(v.s)
      [] v.t \in {"null", "array", "object"} -> [ok |-> FALSE, exc |-> "TypeError", value |-> 0]

JInt(n) == [t |-> "int", n |-> n]
JBool(b) == [t |-> "bool", b |-> b]
JFloat(tenths) == [t |-> "float", tenths |-> tenths]
\* what json.loads makes of a number too large for a float (1e999)
JInfinity == [t |-> "inf"]
\* and of one too large below zero (-1e999)
JNegInfinity == [t |-> "-inf"]
\* what json.loads makes of the literal NaN
JNaN == [t |-> "nan"]
JStr(s) == [t |-> "str", s |-> s]
JNull == [t |-> "null"]
JArray(a) == [t |-> "array", a |-> a]
JObject(o) == [t |-> "object", o |-> o]

\* min(a, b)
min(a, b) == IF a <= b THEN a ELSE b

\* the question count of a request that passed validation
question_count(d) == min(int(Get(d, "questionCount", JInt(10))).value, 15)

QuestionPaperHistoryPart(d) ==
    LET previous_questions == Get(d, "previous_questions", <<>>)
    IN  IF previous_questions # <<>>
        THEN << "\nAvoid reusing any of the following questions that the student has already seen for this subject:\n" >>
             \o PreviousQuestionsText(previous_questions)
             \o << "\n",
                   "Create fresh variations with different numbers, scenarios, or phrasing wherever possible." >>
        ELSE <<>>

QuestionPaperPrompt(d) ==
    << "Act as a Primary School teacher in Singapore. ",
       "Create a question paper with exactly ", ToString(question_count(d)),
       " questions for a ", d.classLevel, " student. ",
       "The subject is ", d.subject, ". ",
       "Provide a healthy mix of question types that reflects the MOE syllabus: include several 'single-choice' multiple-choice questions, at least one 'multi-select' question, and at least two 'free-text' questions. ",
       "For all multiple-choice or multi-select questions, include four options with clear wording. ",
       "Do not include answer keys, hints, or explanations in the question paper itself. " >>
    \o QuestionPaperHistoryPart(d)
    \o << "\nReturn a single JSON object with a key 'questions', which is an array of question objects. ",
          "Each question object must contain: 'type' (one of 'single-choice', 'multi-select', or 'free-text'), ",
          "a 'question' field containing the question text, and an 'options' array of four strings for choice-based questions." >>

_handle_question_paper(data, response) ==
    LET d == OrEmpty(data)
    IN  IF Get(d, "classLevel", "") = "" \/ Get(d, "subject", "") = ""
        THEN NoCall(_json_error(<<"Missing 'classLevel' or 'subject'.">>, 400), <<>>)
        ELSE IF int(Get(d, "questionCount", JInt(10))).exc \in {"TypeError", "ValueError"}
        THEN NoCall(_json_error(<<"'questionCount' must be a number.">>, 400), <<>>)
        ELSE IF ~int(Get(d, "questionCount", JInt(10))).ok
        THEN NoCall(Unhandled(int(Get(d, "questionCount", JInt(10))).exc), <<>>)
        ELSE IF int(Get(d, "questionCount", JInt(10))).value < 1
        THEN NoCall(_json_error(<<"'questionCount' must be at least 1.">>, 400), <<>>)
        ELSE call_gemini_api(QuestionPaperPrompt(d), JsonConfig("questions"), response)

P3_YEAR_END_TOPICS ==
    [ English |-> << "Vocab MCQ", "Grammar MCQ", "Grammar Cloze", "Comprehension Cloze",
                     "Sentence Combining", "Comprehension (Open-Ended)" >>,
      Maths |-> << "Numbers to 10 000", "Addition and Subtraction", "Money",
                   "Multiplication Tables of 6, 7, 8 and 9", "Multiplication and Division",
                   "More Word Problems", "Bar Graphs", "Angles",
                   "Perpendicular and Parallel Lines", "Fractions",
                   "Length, Mass and Volume", "Area and Perimeter", "Time" >>,
      Science |-> << "Diversity of Living Things", "Classification of Living Things",
                     "Diversity of Materials", "Life cycles (Plants & Animals)",
                     "Properties of Magnets", "Making and Using Magnets" >> ]

\* normalized_difficulty without lower()
normalized_difficulty_case_kept(d) == SelectSeq(Strip(Get(d, "difficulty", <<>>)), IsAlnum)

\* ''.join(ch for ch in (data.get('difficulty') or '').strip().lower() if ch.isalnum())
normalized_difficulty(d) == SelectSeq(Lower(Strip(Get(d, "difficulty", <<>>))), IsAlnum)

\* difficulty_map.get(normalized_difficulty, 'medium-hard')
difficulty_map_get(key) ==
    CASE key = W_MEDIUM -> "medium"
      [] key = W_MED -> "medium"
      [] key = W_MEDIUMHARD -> "medium-hard"
      [] key = W_MEDIUMHARDMIX -> "medium-hard"
      [] key = W_MEDIUMTOHARDMIX -> "medium-hard"
      [] key = W_HARD -> "hard"
      [] OTHER -> "medium-hard"

difficulty_level(d) == difficulty_map_get(normalized_difficulty(d))

difficulty_sentence(level) ==
    IF level = "medium"
    THEN "Ensure every question reflects medium difficulty suitable for confident Primary 3 pupils preparing for the year-end assessment."
    ELSE IF level = "hard"
    THEN "Ensure every question is hard difficulty, stretching capable Primary 3 pupils while staying within MOE expectations."
    ELSE "Ensure the questions span medium to hard difficulty, mirroring the rigour of Primary 3 year-end examinations."

\* filtered_topics keeping every supplied topic
filtered_topics_unchecked(subject, topics) == topics

\* [topic for topic in topics if topic in valid_topic_list]
filtered_topics(subject, topics) ==
    LET valid_topic_list == Get(P3_YEAR_END_TOPICS, subject, <<>>)
        Valid(topic) == topic \in Range(valid_topic_list)
    IN  SelectSeq(topics, Valid)

\* the subjects dict after the loop over subjects_input.items() and the
\* setdefault loop over P3_YEAR_END_TOPICS
resolved_subjects(d) ==
    LET subjects_input == Get(d, "subjects", JNull)
        supplied == IF subjects_input.t = "object" THEN subjects_input.o ELSE EmptyDict
        kept == { subject \in DOMAIN supplied :
                    /\ supplied[subject].t = "array"
                    /\ filtered_topics(subject, supplied[subject].a) # <<>> }
    IN  [ subject \in kept \cup DOMAIN P3_YEAR_END_TOPICS |->
            IF subject \in kept THEN filtered_topics(subject, supplied[subject].a)
            ELSE P3_YEAR_END_TOPICS[subject] ]

ordered_subjects == <<"English", "Maths", "Science">>

\* "\n".join(topic_lines)
topic_text(subjects) ==
    LET Listed(subject) == Get(subjects, subject, Get(P3_YEAR_END_TOPICS, subject, <<>>)) # <<>>
        listed == SelectSeq(ordered_subjects, Listed)
        Line(subject) == <<subject, ": ">>
                         \o Join(", ", Get(subjects, subject, Get(P3_YEAR_END_TOPICS, subject, <<>>)))
    IN  Flatten(Join(<<"\n">>, [i \in 1..Len(listed) |-> Line(listed[i])]))

\* the ten sub-items of requirements 5 to 7 open with U+2022 BULLET, written
\* here as its escape (see BULLET)
YearEndPrompt(d) ==
    << "Act as an experienced Primary 3 teacher in Singapore preparing a year-end practice examination that follows the latest",
       "Singapore MOE syllabus. ",
       "Create a complete Primary 3 practice paper with separate sections for English, Mathematics, and Science. ",
       "Follow these requirements:\n",
       "1. Present the paper in three sections (English, Mathematics, Science) in that order with clear section titles.\n",
       "2. Use only these Primary 3 topics and tag every question with a 'topic' field that matches one of them exactly:\n" >>
    \o topic_text(resolved_subjects(d))
    \o << "\n", "3. ", difficulty_sentence(difficulty_level(d)), "\n",
          "4. Provide an overall paper title and recommended total duration in minutes.\n",
          "5. English section (align with Paper 2 Language Use & Comprehension):\n",
          "   \\u2022 Include section instructions suitable for Primary 3 students.\n",
          "   \\u2022 Add 3 Vocabulary MCQ questions and 3 Grammar MCQ questions.\n",
          "   \\u2022 Add 2 Grammar Cloze questions. Each Grammar Cloze question should contain a short passage with three blanks, each blank offering four MCQ options.\n",
          "   \\u2022 Add 1 Comprehension Cloze passage with five blanks (treated as five questions) and four MCQ options for each blank.\n",
          "   \\u2022 Add 2 Sentence Combining questions that are open-ended.\n",
          "   \\u2022 Add 2 Comprehension open-ended questions tied to one short passage.\n",
          "6. Mathematics section:\n",
          "   \\u2022 Provide section instructions, suggested time, and total marks.\n",
          "   \\u2022 Include 10 questions: 4 MCQ, 4 short-answer, and 2 structured word problems that expect working steps.\n",
          "7. Science section:\n",
          "   \\u2022 Provide section instructions, suggested time, and total marks.\n",
          "   \\u2022 Include 8 questions: 4 MCQ and 4 open-ended questions focusing on explanation or application of concepts.\n",
          "8. For every question, include an answer and, where helpful, a short explanation aligned with MOE marking expectations.\n",
          "9. Number questions within each section starting from Q1.\n",
          "10. Return the paper strictly as JSON that follows the provided schema." >>

_handle_year_end_paper(data, response) ==
    LET d == OrEmpty(data)
    IN  IF Get(d, "classLevel", "") = ""
        THEN NoCall(_json_error(<<"Missing 'classLevel' in request.">>, 400), <<>>)
        ELSE IF d.classLevel # "P3"
        THEN NoCall(_json_error(<<"Year-end paper generation is currently supported for Primary 3 only.">>, 400), <<>>)
        ELSE call_gemini_api(YearEndPrompt(d), JsonConfig("paper_title"), response)

JText(text) == [t |-> "text", text |-> text]

\* str(v) for a JSON value of an answers list
str(v) ==
    CASE v.t = "text" -> v.text
      [] v.t = "int" -> ToString(v.n)
      [] v.t = "bool" -> IF v.b THEN "True" ELSE "False"
      [] v.t = "null" -> "None"

\* the hexadecimal digits repr() writes for a character that is not printable:
\* two after \x for one below U+0100, four after \u for the others; <<>> for
\* a printable character. The characters that are not printable are here the
\* control characters U+0000 to U+001F and U+007F to U+009F, the soft hyphen,
\* the spaces that are no ASCII space, and the format characters U+200B to
\* U+200F, U+2060 and U+FEFF (tab, line feed and carriage return have their
\* own escapes in ReprChar)
ReprHex(c) ==
    CASE c = "\\u0000" -> <<"0", "0">>
      [] c = "\\u0001" -> <<"0", "1">>
      [] c = "\\u0002" -> <<"0", "2">>
      [] c = "\\u0003" -> <<"0", "3">>
      [] c = "\\u0004" -> <<"0", "4">>
      [] c = "\\u0005" -> <<"0", "5">>
      [] c = "\\u0006" -> <<"0", "6">>
      [] c = "\\u0007" -> <<"0", "7">>
      [] c = "\\u0008" -> <<"0", "8">>
      [] c = "\\u000b" -> <<"0", "b">>
      [] c = "\f" -> <<"0", "c">>
      [] c = "\\u000e" -> <<"0", "e">>
      [] c = "\\u000f" -> <<"0", "f">>
      [] c = "\\u0010" -> <<"1", "0">>
      [] c = "\\u0011" -> <<"1", "1">>
      [] c = "\\u0012" -> <<"1", "2">>
      [] c = "\\u0013" -> <<"1", "3">>
      [] c = "\\u0014" -> <<"1", "4">>
      [] c = "\\u0015" -> <<"1", "5">>
      [] c = "\\u0016" -> <<"1", "6">>
      [] c = "\\u0017" -> <<"1", "7">>
      [] c = "\\u0018" -> <<"1", "8">>
      [] c = "\\u0019" -> <<"1", "9">>
      [] c = "\\u001a" -> <<"1", "a">>
      [] c = "\\u001b" -> <<"1", "b">>
      [] c = "\\u001c" -> <<"1", "c">>
      [] c = "\\u001d" -> <<"1", "d">>
      [] c = "\\u001e" -> <<"1", "e">>
      [] c = "\\u001f" -> <<"1", "f">>
      [] c = "\\u007f" -> <<"7", "f">>
      [] c = "\\u0080" -> <<"8", "0">>
      [] c = "\\u0081" -> <<"8", "1">>
      [] c = "\\u0082" -> <<"8", "2">>
      [] c = "\\u0083" -> <<"8", "3">>
      [] c = "\\u0084" -> <<"8", "4">>
      [] c = "\\u0085" -> <<"8", "5">>
      [] c = "\\u0086" -> <<"8", "6">>
      [] c = "\\u0087" -> <<"8", "7">>
      [] c = "\\u0088" -> <<"8", "8">>
      [] c = "\\u0089" -> <<"8", "9">>
      [] c = "\\u008a" -> <<"8", "a">>
      [] c = "\\u008b" -> <<"8", "b">>
      [] c = "\\u008c" -> <<"8", "c">>
      [] c = "\\u008d" -> <<"8", "d">>
      [] c = "\\u008e" -> <<"8", "e">>
      [] c = "\\u008f" -> <<"8", "f">>
      [] c = "\\u0090" -> <<"9", "0">>
      [] c = "\\u0091" -> <<"9", "1">>
      [] c = "\\u0092" -> <<"9", "2">>
      [] c = "\\u0093" -> <<"9", "3">>
      [] c = "\\u0094" -> <<"9", "4">>
      [] c = "\\u0095" -> <<"9", "5">>
      [] c = "\\u0096" -> <<"9", "6">>
      [] c = "\\u0097" -> <<"9", "7">>
      [] c = "\\u0098" -> <<"9", "8">>
      [] c = "\\u0099" -> <<"9", "9">>
      [] c = "\\u009a" -> <<"9", "a">>
      [] c = "\\u009b" -> <<"9", "b">>
      [] c = "\\u009c" -> <<"9", "c">>
      [] c = "\\u009d" -> <<"9", "d">>
      [] c = "\\u009e" -> <<"9", "e">>
      [] c = "\\u009f" -> <<"9", "f">>
      [] c = "\\u00a0" -> <<"a", "0">>
      [] c = "\\u00ad" -> <<"a", "d">>
      [] c = "\\u1680" -> <<"1", "6", "8", "0">>
      [] c = "\\u2000" -> <<"2", "0", "0", "0">>
      [] c = "\\u2001" -> <<"2", "0", "0", "1">>
      [] c = "\\u2002" -> <<"2", "0", "0", "2">>
      [] c = "\\u2003" -> <<"2", "0", "0", "3">>
      [] c = "\\u2004" -> <<"2", "0", "0", "4">>
      [] c = "\\u2005" -> <<"2", "0", "0", "5">>
      [] c = "\\u2006" -> <<"2", "0", "0", "6">>
      [] c = "\\u2007" -> <<"2", "0", "0", "7">>
      [] c = "\\u2008" -> <<"2", "0", "0", "8">>
      [] c = "\\u2009" -> <<"2", "0", "0", "9">>
      [] c = "\\u200a" -> <<"2", "0", "0", "a">>
      [] c = "\\u200b" -> <<"2", "0", "0", "b">>
      [] c = "\\u200c" -> <<"2", "0", "0", "c">>
      [] c = "\\u200d" -> <<"2", "0", "0", "d">>
      [] c = "\\u200e" -> <<"2", "0", "0", "e">>
      [] c = "\\u200f" -> <<"2", "0", "0", "f">>
      [] c = "\\u2028" -> <<"2", "0", "2", "8">>
      [] c = "\\u2029" -> <<"2", "0", "2", "9">>
      [] c = "\\u202f" -> <<"2", "0", "2", "f">>
      [] c = "\\u205f" -> <<"2", "0", "5", "f">>
      [] c = "\\u2060" -> <<"2", "0", "6", "0">>
      [] c = "\\u3000" -> <<"3", "0", "0", "0">>
      [] c = "\\ufeff" -> <<"f", "e", "f", "f">>
      [] OTHER -> <<>>

\* the quote repr() puts around a string: an apostrophe, or a double quote when
\* the string holds an apostrophe and no double quote
ReprQuote(s) ==
    IF (\E i \in 1..Len(s) : s[i] = "'") /\ ~(\E i \in 1..Len(s) : s[i] = "\"")
    THEN "\"" ELSE "'"

\* how repr() writes one character of a string quoted with 'quote', as the
\* characters written
ReprChar(c, quote) ==
    IF c = "\\" \/ c = quote THEN <<"\\", c>>
    ELSE IF c = "\n" THEN <<"\\", "n">>
    ELSE IF c = "\t" THEN <<"\\", "t">>
    ELSE IF c = "\r" THEN <<"\\", "r">>
    ELSE IF Len(ReprHex(c)) = 2 THEN <<"\\", "x">> \o ReprHex(c)
    ELSE IF Len(ReprHex(c)) = 4 THEN <<"\\", "u">> \o ReprHex(c)
    ELSE <<c>>

\* repr(s) for a string, as the characters written
repr(s) ==
    <<ReprQuote(s)>> \o Flatten([i \in 1..Len(s) |-> ReprChar(s[i], ReprQuote(s))]) \o <<ReprQuote(s)>>

\* how an f-string renders q.get('options', 'N/A'): N/A, or the list of the
\* repr of each option (the options are sequences of characters)
OptionsText(q) ==
    IF Has(q, "options")
    THEN <<"[">>
         \o Flatten(Join(<<", ">>, [i \in 1..Len(q.options) |-> repr(q.options[i])]))
         \o <<"]">>
    ELSE <<"N/A">>

\* the positions of the loop over data['questions'] whose body raises:
\* data['answers'][i] (IndexError), q['type'] or q['question'] (KeyError)
RaisingPositions(questions, answers) ==
    { i \in 1..Len(questions) :
        i > Len(answers) \/ ~Has(questions[i], "type") \/ ~Has(questions[i], "question") }

\* the exception raised at position i
RaisedAt(questions, answers, i) == IF i > Len(answers) THEN "IndexError" ELSE "KeyError"

\* questions_and_answers_text, when no position raises
questions_and_answers_text(questions, answers) ==
    Flatten([i \in 1..Len(questions) |->
        << "Question ", ToString(i), " (type: ", questions[i].type, "): ", questions[i].question, "\n",
           "Options: " >> \o OptionsText(questions[i]) \o << "\n",
           "Student's Answer: ", str(answers[i]), "\n\n" >>])

EvaluatePrompt(questions, answers) ==
    << "Act as a Primary School teacher in Singapore. ",
       "Evaluate the following questions and student answers. For each one, provide whether it is correct, the correct answer (be concise), and a simple, encouraging one-sentence explanation. ",
       "Here are the questions and answers:\n" >>
    \o questions_and_answers_text(questions, answers)
    \o << "Return the response as a single JSON object with a key 'evaluation', which is an array of ",
          ToString(Len(questions)), " objects. ",
          "Each object must have three keys: 'is_correct' (boolean), 'correct_answer' (string), and 'explanation' (string)." >>

_handle_evaluate(data, response) ==
    IF Falsy(data) \/ ~Has(data.obj, "questions") \/ ~Has(data.obj, "answers")
    THEN NoCall(_json_error(<<"Missing 'questions' or 'answers' in request.">>, 400), <<>>)
    ELSE IF Len(data.obj.questions) = 0
    THEN NoCall(_json_error(<<"At least one question is required for evaluation.">>, 400), <<>>)
    ELSE IF RaisingPositions(data.obj.questions, data.obj.answers) # {}
    THEN NoCall(Unhandled(RaisedAt(data.obj.questions, data.obj.answers,
                                   SetMin(RaisingPositions(data.obj.questions, data.obj.answers)))),
                <<>>)
    ELSE call_gemini_api(EvaluatePrompt(data.obj.questions, data.obj.answers),
                         JsonConfig("evaluation"), response)

\* route_map: the handler of a target path, "" when route_map.get returns None
route_map_get(target_path) ==
    CASE target_path = <<"generate">> -> "_handle_generate_quiz"
      [] target_path = <<"generate-year-end">> -> "_handle_year_end_paper"
      [] target_path = <<"evaluate">> -> "_handle_evaluate"
      [] target_path = <<"get-hint">> -> "_handle_hint"
      [] target_path = <<"question-paper">> -> "_handle_question_paper"
      [] OTHER -> ""

\* handler(data)
CallHandler(handler, data, response) ==
    CASE handler = "_handle_generate_quiz" -> _handle_generate_quiz(data, response)
      [] handler = "_handle_year_end_paper" -> _handle_year_end_paper(data, response)
      [] handler = "_handle_evaluate" -> _handle_evaluate(data, response)
      [] handler = "_handle_hint" -> _handle_hint(data, response)
      [] handler = "_handle_question_paper" -> _handle_question_paper(data, response)

\* the handlers a dispatched request runs, and what they leave behind
Dispatched(handlers, out) == [handlers |-> handlers, out |-> out]

_dispatch_to_handler(target_path, data, response) ==
    IF route_map_get(target_path) = ""
    THEN Dispatched(<<>>, NoCall(_json_error(<<"Requested endpoint was not found.">>, 404), <<>>))
    ELSE Dispatched(<<route_map_get(target_path)>>,
                    CallHandler(route_map_get(target_path), data, response))

\* target_path of vercel_dispatch_handler: the 'path' query argument stripped
\* of '/', or when that is empty and the body is a dict, its '__route' stripped;
\* a '__route' that is no string has no strip() and raises AttributeError
target_path_of(request) ==
    LET from_args == StripOf(request.path, {"/"})
        route == Get(request.data.obj, "__route", JStr(<<>>))
    IN  IF from_args = <<>> /\ request.data.json = "object"
        THEN IF route.t = "str"
             THEN [raises |-> FALSE, path |-> StripOf(route.s, {"/"})]
             ELSE [raises |-> TRUE, path |-> <<>>]
        ELSE [raises |-> FALSE, path |-> from_args]

vercel_dispatch(request, response) ==
    IF request.method = "OPTIONS"
    THEN Dispatched(<<>>, NoCall(EmptyResponse(204), <<>>))
    ELSE IF target_path_of(request).raises
    THEN Dispatched(<<>>, NoCall(Unhandled("AttributeError"), <<>>))
    ELSE IF target_path_of(request).path = <<>>
    THEN Dispatched(<<>>, NoCall(_json_error(<<"Requested endpoint was not found.">>, 404), <<>>))
    ELSE _dispatch_to_handler(target_path_of(request).path, request.data, response)

----------------------------------------------------------------------------
(* src/main.py and src/index.py: the pass-through handlers *)

\* "not API_KEY" for os.environ.get("GOOGLE_API_KEY"): unset (None) or empty
MainKeyMissing == Get(environ, "GOOGLE_API_KEY", <<>>) = <<>>

MainPayload(p, generation_config) ==
    IF DOMAIN generation_config # {}
    THEN [contents |-> <<[role |-> "user", parts |-> <<[text |-> p]>>]>>,
          generationConfig |-> generation_config]
    ELSE [contents |-> <<[role |-> "user", parts |-> <<[text |-> p]>>]>>]

generate_content(data, response) ==
    IF MainKeyMissing
    THEN NoCall(JsonResponse([error |-> <<"API key is not configured on the server.">>], 500), <<>>)
    ELSE IF Falsy(data) \/ ~Has(data.obj, "prompt")
    THEN NoCall(JsonResponse([error |-> <<"Invalid request. 'prompt' is required.">>], 400), <<>>)
    ELSE Outcome(
            IF response.raises
            THEN JsonResponse([error |-> <<"An internal server error occurred.">>], 500)
            ELSE IF RaisesForStatus(response)
            THEN JsonResponse([error |-> <<"An error occurred with the AI service.">>,
                               details |-> response.text], response.status_code)
            ELSE IF ~response.decodes
            THEN JsonResponse([error |-> <<"An internal server error occurred.">>], 500)
            ELSE JsonResponse(response.json, 200),
            <<data.obj.prompt>>,
            <<MainPayload(<<data.obj.prompt>>, Get(data.obj, "generationConfig", EmptyDict))>>,
            <<response>>)

get_hint(data, response) ==
    IF MainKeyMissing
    THEN NoCall(JsonResponse([error |-> <<"API key is not configured on the server.">>], 500), <<>>)
    ELSE IF Falsy(data) \/ ~Has(data.obj, "prompt")
    THEN NoCall(JsonResponse([error |-> <<"Invalid request. 'prompt' is required.">>], 400), <<>>)
    ELSE Outcome(
            IF response.raises \/ RaisesForStatus(response) \/ ~response.decodes
            THEN JsonResponse([error |-> <<"An internal server error occurred.">>], 500)
            ELSE JsonResponse(response.json, 200),
            <<data.obj.prompt>>,
            <<MainPayload(<<data.obj.prompt>>, EmptyDict)>>,
            <<response>>)

----------------------------------------------------------------------------
(* Requests *)

\* a key that is absent, or present with one of the values
Field(k, values) == {EmptyDict} \cup {[x \in {k} |-> v] : v \in values}

\* the sequences over S of length at most n
SeqsUpTo(S, n) == UNION {[1..m -> S] : m \in 0..n}

PriorQuestions == {"What is 2 + 2?", "Name one magnetic material."}

\* the history of a request under the camel-case key 'previousQuestions', which
\* a client may send next to, or instead of, 'previous_questions'
CamelCaseHistories ==
    { a @@ b :
        a \in Field("previousQuestions", SeqsUpTo(PriorQuestions, MaxPrev)) \ {EmptyDict},
        b \in Field("previous_questions", {<<"Name one magnetic material.">>}) }

\* subjects and topics around the test that selects the variant of the quiz
\* prompt: each topic of english_mcq_topics, and spellings that differ in case
VariantSamples ==
    { [classLevel |-> "P3", subject |-> sb, topic |-> tp, difficulty |-> W_HARD] @@ e :
        sb \in {"English", "english", "Science"},
        tp \in {"Vocab MCQ", "Grammar MCQ", "Grammar Cloze", "Comprehension Cloze", "vocab mcq"},
        e \in Field("template", {"Fill in the blank: ____"}) }

QuizDicts ==
    { [classLevel |-> "P3", subject |-> "Maths", topic |-> "Fractions", difficulty |-> W_HARD] @@ h :
        h \in CamelCaseHistories }
    \cup VariantSamples
    \cup
    { a @@ b @@ c @@ d @@ e @@ f :
        a \in Field("classLevel", {"", "P3"}),
        b \in Field("subject", {"", "English", "Maths"}),
        c \in Field("topic", {"", "Vocab MCQ", "Comprehension (Open-Ended)", "Fractions"}),
        d \in Field("difficulty", {<<>>, W_HARD}),
        e \in Field("template", {"", "Fill in the blank: ____"}),
        f \in Field("previous_questions", SeqsUpTo(PriorQuestions, MaxPrev)) }

QuestionCounts ==
    { JInt(n) : n \in (-1..MaxCount) \cup {20} }
    \cup { JBool(TRUE), JBool(FALSE), JNull, JInfinity, JNegInfinity, JNaN, JArray(<<>>),
             JObject(EmptyDict) }
    \cup { JFloat(x) : x \in {-5, 5, 15, 159} }
    \cup { JStr(s) : s \in { <<"a", "b", "c">>, <<>>, <<"0">>, <<"7">>, <<"2", "0">>,
                              <<" ", "1", "2", "\n">>, <<"-", "3">>, <<"+", "5">>,
                              <<"3", ".", "5">>, <<"1", "_", "0">>, <<"_", "1">>,
                              <<"1", "_", "_", "0">>, <<"1", " ", "2">>, <<"-">>,
                              <<"7", "\r">>, <<"\f", "7">>, <<"\\u00a0", "1", ARABIC_THREE>>,
                              <<SUPERSCRIPT_TWO>>, <<"\\u001c", "7">>, <<"7", "\\u001f">> } }

QuestionPaperDicts ==
    { [classLevel |-> "P3", subject |-> "Maths"] @@ h : h \in CamelCaseHistories }
    \cup
    { a @@ b @@ c @@ f :
        a \in Field("classLevel", {"", "P3"}),
        b \in Field("subject", {"", "Maths"}),
        c \in Field("questionCount", QuestionCounts),
        f \in Field("previous_questions", SeqsUpTo(PriorQuestions, MaxPrev)) }

\* str.upper() on one character
UpperChar(c) ==
    IF \E i \in 1..26 : LowerLetters[i] = c
    THEN UpperLetters[CHOOSE i \in 1..26 : LowerLetters[i] = c]
    ELSE IF c = E_ACUTE_SMALL THEN E_ACUTE_CAPITAL
    ELSE c

\* s with the character at position i in upper case
UpperAt(s, i) == [s EXCEPT ![i] = UpperChar(s[i])]

\* s with the character c inserted after position i
InsertAt(s, i, c) == SubSeq(s, 1, i) \o <<c>> \o SubSeq(s, i + 1, Len(s))

DifficultyWords ==
    { W_MEDIUM, W_MED, W_MEDIUMHARD, W_MEDIUMHARDMIX, W_MEDIUMTOHARDMIX, W_HARD,
      <<>>, WORD_EASY, WORD_HARDEST, WORD_MED1 }

\* difficulty strings with letters, digits and whitespace the table's keys do
\* not contain
OtherDifficulties ==
    { <<"B", "h", "a", "r", "d">>, <<"h", "a", "r", "d", "z">>,
      <<"\r", "h", "a", "r", "d", "\f">>, <<"\\u00a0", "M", "E", "D", "\\u2003">>,
      <<"m", E_ACUTE_CAPITAL, "d">>, <<"m", "e", "d", ARABIC_THREE>>,
      <<"h", "a", "r", "d", SUPERSCRIPT_TWO>>, <<"h", "a", "r", "d", BULLET>> }

\* difficulty strings of a year-end request: the words, each with one character
\* upper-cased, all upper-cased, or one non-alphanumeric character inserted,
\* and the mixed examples "Med-Hard Mix!" and " Me-D!"
Difficulties ==
    DifficultyWords
    \cup OtherDifficulties
    \cup { UpperAt(w, i) : <<w, i>> \in { <<v, j>> \in DifficultyWords \X (1..15) : j <= Len(v) } }
    \cup { [i \in 1..Len(w) |-> UpperChar(w[i])] : w \in DifficultyWords }
    \cup { InsertAt(w, i, c) :
            <<w, i, c>> \in { <<v, j, x>> \in DifficultyWords \X (0..15) \X {"-", " ", "!", "_"} :
                                j <= Len(v) } }
    \cup { WORD_EXAMPLE, WORD_MIXED }

SuppliedTopics == {"Vocab MCQ", "Money", "Algebra"}

TopicLists == { JArray(s) : s \in SeqsUpTo(SuppliedTopics, MaxTopics) } \cup { JStr(<<"a">>) }

SubjectMaps ==
    { a @@ b @@ c :
        a \in Field("English", TopicLists),
        b \in Field("Art", { JArray(<<"Vocab MCQ">>), JArray(<<>>) }),
        c \in Field("Maths", { JArray(<<"Money", "Algebra", "Money">>), JStr(<<"a">>) }) }

SubjectsValues == { JObject(m) : m \in SubjectMaps } \cup { JArray(<<>>) }

YearEndDicts ==
    { a @@ b @@ c :
        a \in Field("classLevel", {"", "P3", "P4"}),
        b \in Field("difficulty", Difficulties),
        c \in Field("subjects", { JObject([English |-> JArray(<<"Vocab MCQ">>)]) }) }
    \cup
    { a @@ b @@ c :
        a \in { [classLevel |-> "P3"] },
        b \in Field("difficulty", { W_HARD }),
        c \in { [subjects |-> v] : v \in SubjectsValues } }

QuestionItems ==
    { [type |-> "single-choice", question |-> "2 + 2 = ?",
       options |-> << <<"4">>, <<"i", "t", "'", "s">>, <<"'", "s", "o", "\"">>,
                      <<"a", "\\", "\n", "\f", "\\u2003", E_ACUTE_SMALL>>,
                      <<"\\u0000", "\\u001b", "\\u007f", "\\u00ad", "\t">> >>],
      [type |-> "free-text", question |-> "Name one magnetic material."],
      [question |-> "Untyped?"] }

AnswerValues == { JText("4"), JInt(4), JNull }

EvaluateDicts ==
    { a @@ b :
        a \in Field("questions", SeqsUpTo(QuestionItems, MaxQuestions)),
        b \in Field("answers", SeqsUpTo(AnswerValues, MaxQuestions)) }

PassThroughDicts ==
    { a @@ b :
        a \in Field("prompt", {"", "Give a hint for: 2 + 2"}),
        b \in Field("generationConfig", { EmptyDict, JsonConfig("questions") }) }

\* values of the 'path' query argument and string values of the '__route' body
\* field, in segments
Paths ==
    { <<>>, <<"/">>, <<"generate">>, <<"/", "generate", "/">>, <<"generate-year-end">>,
      <<"evaluate">>, <<"/", "/", "evaluate">>, <<"get-hint">>, <<"question-paper">>,
      <<"generate", "/", "extra">>, <<"quiz">>, <<"Generate">> }

\* values of the '__route' body field: strings, null and a number
Routes == { JStr(p) : p \in Paths } \cup { JNull, JInt(5) }

\* bodies sent to the single dispatch path: some bodies of every task, each
\* with and without a '__route'
DispatchSamples ==
    { EmptyDict,
      [classLevel |-> "P3", subject |-> "English", topic |-> "Vocab MCQ", difficulty |-> W_HARD],
      [classLevel |-> "P3", subject |-> "Maths", questionCount |-> JInt(20)],
      [classLevel |-> "P3", subject |-> "Maths", questionCount |-> JInt(0)],
      [classLevel |-> "P4"],
      [questions |-> <<[type |-> "free-text", question |-> "Name one magnetic material."]>>,
       answers |-> <<JText("iron")>>],
      [questions |-> <<[type |-> "free-text", question |-> "Name one magnetic material."]>>,
       answers |-> <<>>],
      [question |-> "What do magnets attract?"] }

DispatchDicts == { a @@ b : a \in DispatchSamples, b \in Field("__route", Routes) }

HintDicts ==
    { a @@ b : a \in Field("question", {"", "What do magnets attract?"}),
               b \in Field("classLevel", {"P3"}) }

Bodies(dicts) == {NoneData} \cup {ObjectData(d) : d \in dicts}

\* a request as Flask hands it to a view function: the application and the view
\* its URL selects, the method, the 'path' query argument, the JSON body
Request(app, view, method, path, data) ==
    [app |-> app, app_view |-> view, method |-> method, path |-> path, data |-> data]

Requests ==
    { Request("api/index.py", "generate_handler", "POST", <<>>, b) : b \in Bodies(QuizDicts) }
    \cup { Request("api/index.py", "question_paper_handler", "POST", <<>>, b) : b \in Bodies(QuestionPaperDicts) }
    \cup { Request("api/index.py", "generate_year_end_handler", "POST", <<>>, b) : b \in Bodies(YearEndDicts) }
    \cup { Request("api/index.py", "evaluate_handler", "POST", <<>>, b) : b \in Bodies(EvaluateDicts) }
    \cup { Request("api/index.py", "get_hint_handler", "POST", <<>>, b) : b \in Bodies(HintDicts) }
    \cup { Request("api/index.py", "vercel_dispatch_handler", m, p, b) :
            m \in {"POST", "OPTIONS"}, p \in Paths, b \in Bodies(DispatchDicts) }
    \cup { Request(app, v, "POST", <<>>, b) :
            app \in {"main.py", "index.py"},
            v \in {"generate_content", "get_hint"}, b \in Bodies(PassThroughDicts) }

\* values of the GOOGLE_API_KEY environment variable
KeyValues == { <<" ">>, <<"\r">>, <<" ", "k", "1", "\n">> }

Environments == Field("GOOGLE_API_KEY", KeyValues)

----------------------------------------------------------------------------
(* The state machine *)

Init ==
    /\ environ \in Environments
    /\ req \in Requests
    /\ pc = "received"
    /\ resp = NoResponse
    /\ ran = <<>>
    /\ prompt = <<>>
    /\ posts = <<>>
    /\ replies = <<>>

\* the view function returns: the response is sent
Finish(handlers, out) ==
    /\ pc' = "done"
    /\ resp' = out.resp
    /\ ran' = handlers
    /\ prompt' = out.prompt
    /\ posts' = out.posts
    /\ replies' = out.replies
    /\ UNCHANGED <<environ, req>>

\* the view function calls requests.post and blocks: the payload is on its way
\* and nothing has come back
Post(handlers, out) ==
    /\ pc' = "awaiting_reply"
    /\ ran' = handlers
    /\ prompt' = out.prompt
    /\ posts' = out.posts
    /\ UNCHANGED <<environ, req, resp, replies>>

\* a step of a view function whose whole run, were the reply of the generation
\* service the one of 'out', has the outcome 'out': from the request to its
\* return when it makes no call, from the request to requests.post when it
\* makes one, and from the reply to its return
Step(handlers, out) ==
    \/ pc = "received" /\ out.posts = <<>> /\ Finish(handlers, out)
    \/ pc = "received" /\ out.posts # <<>> /\ Post(handlers, out)
    \/ pc = "awaiting_reply" /\ Finish(handlers, out)

generate_handler ==
    /\ req.app = "api/index.py" /\ req.app_view = "generate_handler"
    /\ \E response \in Replies :
        Step(<<"_handle_generate_quiz">>, _handle_generate_quiz(req.data, response))

question_paper_handler ==
    /\ req.app = "api/index.py" /\ req.app_view = "question_paper_handler"
    /\ \E response \in Replies :
        Step(<<"_handle_question_paper">>, _handle_question_paper(req.data, response))

generate_year_end_handler ==
    /\ req.app = "api/index.py" /\ req.app_view = "generate_year_end_handler"
    /\ \E response \in Replies :
        Step(<<"_handle_year_end_paper">>, _handle_year_end_paper(req.data, response))

evaluate_handler ==
    /\ req.app = "api/index.py" /\ req.app_view = "evaluate_handler"
    /\ \E response \in Replies :
        Step(<<"_handle_evaluate">>, _handle_evaluate(req.data, response))

vercel_dispatch_handler ==
    /\ req.app = "api/index.py" /\ req.app_view = "vercel_dispatch_handler"
    /\ \E response \in Replies :
        Step(vercel_dispatch(req, response).handlers, vercel_dispatch(req, response).out)

main_generate_content ==
    /\ req.app = "main.py" /\ req.app_view = "generate_content"
    /\ \E response \in Replies :
        Step(<<"generate_content">>, generate_content(req.data, response))

main_get_hint ==
    /\ req.app = "main.py" /\ req.app_view = "get_hint"
    /\ \E response \in Replies :
        Step(<<"get_hint">>, get_hint(req.data, response))

\* src/index.py defines the same two view functions as src/main.py
index_generate_content ==
    /\ req.app = "index.py" /\ req.app_view = "generate_content"
    /\ \E response \in Replies :
        Step(<<"generate_content">>, generate_content(req.data, response))

index_get_hint ==
    /\ req.app = "index.py" /\ req.app_view = "get_hint"
    /\ \E response \in Replies :
        Step(<<"get_hint">>, get_hint(req.data, response))

get_hint_handler ==
    /\ req.app = "api/index.py" /\ req.app_view = "get_hint_handler"
    /\ \E response \in Replies :
        Step(<<"_handle_hint">>, _handle_hint(req.data, response))

Next ==
    \/ generate_handler
    \/ question_paper_handler
    \/ generate_year_end_handler
    \/ evaluate_handler
    \/ get_hint_handler
    \/ vercel_dispatch_handler
    \/ main_generate_content
    \/ main_get_hint
    \/ index_generate_content
    \/ index_get_hint

Spec == Init /\ [][Next]_vars

----------------------------------------------------------------------------
(* Vocabulary of the properties *)

Done == pc = "done"

TaskHandlers ==
    { "_handle_generate_quiz", "_handle_question_paper", "_handle_year_end_paper",
      "_handle_evaluate", "_handle_hint" }

\* the request was handled by task handler h of src/api/index.py
HandledBy(h) == Done /\ req.app = "api/index.py" /\ ran = <<h>>

\* the request body as a dict ({} when there is none)
Body == IF req.data.json = "object" THEN req.data.obj ELSE EmptyDict

\* the application's own test for a missing key
KeyNotConfigured == IF req.app = "api/index.py" THEN API_KEY = <<>> ELSE MainKeyMissing

IsJsonError(r, status) ==
    r.kind = "json" /\ r.status = status /\ DOMAIN r.body = {"error"}

IsNotConfigured(r) ==
    IsJsonError(r, 500) /\ r.body.error = <<"API key is not configured on the server.">>

\* the position of a piece in a prompt
IndexOf(p, piece) == CHOOSE i \in 1..Len(p) : p[i] = piece

\* the piece that follows a piece in a prompt
PieceAfter(p, piece) == p[IndexOf(p, piece) + 1]

----------------------------------------------------------------------------
(* C1 *)

\* C1 (as stated): when the API key is not configured, every handled request,
\* whatever its body, is answered 500 'not configured' and nothing is posted.
C1_NotConfiguredWhateverBody ==
    (Done /\ ran # <<>> /\ KeyNotConfigured) => (IsNotConfigured(resp) /\ posts = <<>>)

\* the request got as far as the upstream caller: a prompt was compiled and
\* handed to call_gemini_api, or the handler is one of main.py's or index.py's,
\* which test the key before anything else
ReachedUpstreamCaller == req.app # "api/index.py" \/ prompt # <<>>

\* C1 (amended): when the API key is not configured, no handler posts anything
\* to the generation service, whatever the body, and no request is answered
\* with a success; the requests answered 500 'not configured' are those the
\* handler passes on to the upstream caller, and no others.
C1_NotConfiguredNeverCalls ==
    /\ KeyNotConfigured => (posts = <<>> /\ pc # "awaiting_reply")
    /\ (Done /\ ran # <<>> /\ KeyNotConfigured) =>
            /\ resp.status # 200
            /\ ReachedUpstreamCaller <=> IsNotConfigured(resp)

C1_Witness ==
    /\ HandledBy("_handle_year_end_paper")
    /\ Has(environ, "GOOGLE_API_KEY") /\ API_KEY = <<>>
    /\ prompt # <<>>
    /\ IsNotConfigured(resp)
    /\ posts = <<>>

----------------------------------------------------------------------------
(* C2 *)

\* a questionCount that is no number: null, an array, an object, NaN, or a
\* string that does not spell an integer
NonNumeric(v) ==
    \/ v.t \in {"null", "array", "object", "nan"}
    \/ v.t = "str" /\ ~IntOfString(v.s).ok

\* a questionCount that is a number below 1: an integer, a float (in tenths),
\* minus infinity, or a string spelling such an integer
BelowOne(v) ==
    \/ v.t = "int" /\ v.n < 1
    \/ v.t = "float" /\ v.tenths < 10
    \/ v.t = "-inf"
    \/ v.t = "str" /\ IntOfString(v.s).ok /\ IntOfString(v.s).value < 1

\* a required field that is missing from the body or empty
MissingOrEmptyField(d, f, empty) == ~Has(d, f) \/ d[f] = empty

\* the client input errors of a task, read off the request body: a missing or
\* empty required field, a questionCount that is no number or below 1, a
\* year-end classLevel other than "P3", an evaluate request with no questions
\* or without one of its two fields, a hint without a question
ClientInputError(h, d) ==
    CASE h = "_handle_generate_quiz" ->
            \E f \in Range(required_fields) : MissingOrEmptyField(d, f, EmptyString(f))
      [] h = "_handle_question_paper" ->
            \/ MissingOrEmptyField(d, "classLevel", "")
            \/ MissingOrEmptyField(d, "subject", "")
            \/ Has(d, "questionCount") /\ NonNumeric(d.questionCount)
            \/ Has(d, "questionCount") /\ BelowOne(d.questionCount)
      [] h = "_handle_year_end_paper" ->
            MissingOrEmptyField(d, "classLevel", "") \/ d.classLevel # "P3"
      [] h = "_handle_evaluate" ->
            MissingOrEmptyField(d, "questions", <<>>) \/ MissingOrEmptyField(d, "answers", <<>>)
      [] h = "_handle_hint" ->
            MissingOrEmptyField(d, "question", "")

\* C2: a request with a client input error is answered 400 and nothing is
\* posted to the generation service for it.
C2_ClientErrorIs400 ==
    \A h \in TaskHandlers :
        (HandledBy(h) /\ ClientInputError(h, Body)) =>
            (resp.kind = "json" /\ resp.status = 400 /\ posts = <<>> /\ replies = <<>>)

----------------------------------------------------------------------------
(* C3 *)

\* the reply to the post was an HTTP error status
UpstreamHttpFailure == replies # <<>> /\ ~replies[1].raises /\ RaisesForStatus(replies[1])

\* C3: every request a task handler does not answer with a success ends with
\* one JSON error response {error} (plus details after an upstream HTTP
\* failure); nothing leaves the handler as an unhandled exception.
C3_EveryFailureIsJsonError ==
    (Done /\ req.app = "api/index.py" /\ ran # <<>>) =>
        /\ resp.kind = "json"
        /\ resp.status # 200 =>
            \/ DOMAIN resp.body = {"error"}
            \/ DOMAIN resp.body = {"error", "details"} /\ UpstreamHttpFailure

----------------------------------------------------------------------------
(* C4 *)

\* C4: an evaluate request with fewer answers than questions is answered with
\* a 400 client error and nothing is posted.
C4_ShortAnswersIs400 ==
    ( /\ HandledBy("_handle_evaluate")
      /\ Has(Body, "questions") /\ Has(Body, "answers")
      /\ Len(Body.answers) < Len(Body.questions) ) =>
        (resp.kind = "json" /\ resp.status = 400 /\ posts = <<>>)

----------------------------------------------------------------------------
(* C5 *)

\* the required quiz fields a request lacks or leaves empty
MissingOrEmpty(d) == { f \in Range(required_fields) : ~Has(d, f) \/ d[f] = EmptyString(f) }

\* the required quiz fields an error message names
NamedFields(message) == Range(required_fields) \cap Range(message)

\* C5: a quiz request whose JSON body lacks any required field, or leaves it
\* empty, is answered 400 with a message naming exactly those fields.
C5_MessageNamesMissingFields ==
    ( /\ HandledBy("_handle_generate_quiz")
      /\ req.data.json = "object"
      /\ MissingOrEmpty(Body) # {} ) =>
        /\ IsJsonError(resp, 400)
        /\ NamedFields(resp.body.error) = MissingOrEmpty(Body)

----------------------------------------------------------------------------
(* C6 *)

\* the count a question-paper prompt asks for
RequestedCount(p) == PieceAfter(p, "Create a question paper with exactly ")

\* the counts 1..15 as a prompt shows them
CountsInRange == { ToString(n) : n \in 1..15 }

\* a question-paper request with classLevel and subject present
QuestionPaperCase ==
    /\ HandledBy("_handle_question_paper")
    /\ Has(Body, "classLevel") /\ Body.classLevel # ""
    /\ Has(Body, "subject") /\ Body.subject # ""

\* the request is rejected with 400 and no prompt is compiled or posted
RejectedWith400 == IsJsonError(resp, 400) /\ prompt = <<>> /\ posts = <<>>

\* C6: with classLevel and subject present, an absent questionCount counts as
\* 10, one that int() does not accept is a 400, one below 1 is a 400, one above
\* 15 is clamped to 15 without an error, and every prompt posted asks for a
\* count within 1..15 (0 => 400, 20 => 15, "abc" => 400).
C6_QuestionCount ==
    QuestionPaperCase =>
        LET given == Has(Body, "questionCount")
            parsed == int(Get(Body, "questionCount", JNull))
        IN  /\ ~given => (prompt # <<>> /\ RequestedCount(prompt) = "10")
            /\ (given /\ ~parsed.ok) => RejectedWith400
            /\ (given /\ parsed.ok /\ parsed.value < 1) => RejectedWith400
            /\ (given /\ parsed.ok /\ parsed.value > 15) =>
                    (prompt # <<>> /\ RequestedCount(prompt) = "15" /\ ~IsJsonError(resp, 400))
            /\ (given /\ parsed.ok /\ parsed.value \in 1..15) =>
                    (prompt # <<>> /\ RequestedCount(prompt) = ToString(parsed.value))
            /\ \A i \in 1..Len(posts) :
                    RequestedCount(posts[i].contents[1].parts[1].text) \in CountsInRange
            /\ (given /\ Body.questionCount = JInt(0)) => RejectedWith400
            /\ (given /\ Body.questionCount = JStr(<<"a", "b", "c">>)) => RejectedWith400
            /\ (given /\ Body.questionCount = JInt(20)) => RequestedCount(prompt) = "15"

----------------------------------------------------------------------------
(* C7 *)

ReferenceSubjects == {"English", "Maths", "Science"}

\* the topics a request supplies for a subject (none when the subjects field
\* is no mapping or the subject's value is no list)
Supplied(d, subject) ==
    IF /\ Has(d, "subjects") /\ d.subjects.t = "object"
       /\ Has(d.subjects.o, subject) /\ d.subjects.o[subject].t = "array"
    THEN d.subjects.o[subject].a
    ELSE <<>>

\* a supplied topic is on the subject's allow-list
Allowed(subject, topic) == \E i \in 1..Len(P3_YEAR_END_TOPICS[subject]) : P3_YEAR_END_TOPICS[subject][i] = topic

\* the topics the claim resolves for a reference subject
Resolved(d, subject) ==
    LET Keep(topic) == Allowed(subject, topic)
        kept == SelectSeq(Supplied(d, subject), Keep)
    IN  IF kept # <<>> THEN kept ELSE P3_YEAR_END_TOPICS[subject]

\* the topic lines of a year-end prompt
TopicTextOf(p) ==
    SubSeq(p,
           IndexOf(p, "2. Use only these Primary 3 topics and tag every question with a 'topic' field that matches one of them exactly:\n") + 1,
           IndexOf(p, "3. ") - 2)

\* the line of one subject
TopicLine(subject, topics) == <<subject, ": ">> \o Join(", ", topics)

\* C7: the prompt lists English, Maths and Science, each with a non-empty topic
\* list: the supplied topics on the subject's allow-list, or the full default
\* list when none is supplied or none is left; no other subject and no dropped
\* topic appears in the prompt.
C7_TopicResolution ==
    (HandledBy("_handle_year_end_paper") /\ prompt # <<>>) =>
        /\ TopicTextOf(prompt) =
                TopicLine("English", Resolved(Body, "English")) \o <<"\n">>
                \o TopicLine("Maths", Resolved(Body, "Maths")) \o <<"\n">>
                \o TopicLine("Science", Resolved(Body, "Science"))
        /\ \A subject \in ReferenceSubjects : Resolved(Body, subject) # <<>>
        /\ \A subject \in ReferenceSubjects :
                resolved_subjects(Body)[subject] = Resolved(Body, subject)
        /\ "Art" \notin Range(prompt)
        /\ "Algebra" \notin Range(prompt)

C7_Witness ==
    /\ HandledBy("_handle_year_end_paper")
    /\ posts # <<>>
    /\ Supplied(Body, "English") = <<"Algebra", "Vocab MCQ">>
    /\ Supplied(Body, "Art") = <<"Vocab MCQ">>
    /\ Has(Body.subjects.o, "Maths") /\ Body.subjects.o.Maths.t = "str"
    /\ TopicTextOf(posts[1].contents[1].parts[1].text)[3] = "Vocab MCQ"
    /\ TopicTextOf(posts[1].contents[1].parts[1].text)[4] = "\n"

----------------------------------------------------------------------------
(* C8 *)

CanonicalLevels == {"medium", "medium-hard", "hard"}

\* the level a year-end prompt's difficulty sentence stands for
LevelOf(p) ==
    LET sentence == PieceAfter(p, "3. ")
    IN  CASE sentence = difficulty_sentence("medium") -> "medium"
          [] sentence = difficulty_sentence("hard") -> "hard"
          [] sentence = difficulty_sentence("medium-hard") -> "medium-hard"
          [] OTHER -> "none"

\* a difficulty string without its non-alphanumeric characters, in lower case
Canonical(chars) ==
    LET kept == SelectSeq(chars, IsAlnum)
    IN  [i \in 1..Len(kept) |-> LowerChar(kept[i])]

\* the fixed table
TableLevel(key) ==
    IF key \in {W_MEDIUM, W_MED} THEN "medium"
    ELSE IF key \in {W_MEDIUMHARD, W_MEDIUMHARDMIX, W_MEDIUMTOHARDMIX} THEN "medium-hard"
    ELSE IF key = W_HARD THEN "hard"
    ELSE "medium-hard"

\* the level the handler gives each difficulty string of the model
LevelOfInput == [chars \in Difficulties |-> difficulty_level([difficulty |-> chars])]

\* the canonical form of each difficulty string of the model
CanonicalOfInput == [chars \in Difficulties |-> Canonical(chars)]

\* difficulty strings with the same canonical form get the same level
EquivalentInputsAgree ==
    \A a, b \in Difficulties :
        CanonicalOfInput[a] = CanonicalOfInput[b] => LevelOfInput[a] = LevelOfInput[b]

\* C8: the level is the table's entry for the lower-cased alphanumeric
\* characters of the input, one of the three levels, medium-hard when the input
\* is absent or not in the table; inputs that differ only in case or in
\* non-alphanumeric characters get the same level ("Med-Hard Mix!" gets the
\* level of "mediumhardmix").
C8_DifficultyNormalization ==
    (HandledBy("_handle_year_end_paper") /\ prompt # <<>>) =>
        /\ LevelOf(prompt) \in CanonicalLevels
        /\ LevelOf(prompt) = TableLevel(Canonical(Get(Body, "difficulty", <<>>)))
        /\ ~Has(Body, "difficulty") => LevelOf(prompt) = "medium-hard"
        /\ LevelOf(prompt) = LevelOfInput[Get(Body, "difficulty", <<>>)]
        /\ EquivalentInputsAgree
        /\ (Has(Body, "difficulty") /\ Body.difficulty = WORD_EXAMPLE) =>
                LevelOf(prompt) = difficulty_level([difficulty |-> W_MEDIUMHARDMIX])

C8_Witness ==
    /\ HandledBy("_handle_year_end_paper")
    /\ posts # <<>>
    /\ Has(Body, "difficulty") /\ Body.difficulty = WORD_MIXED
    /\ LevelOf(posts[1].contents[1].parts[1].text) = "medium"

----------------------------------------------------------------------------
(* C9 *)

\* the task identifier of a dispatched request: the query parameter without
\* its surrounding slashes or, when that is empty, the body's route field; a
\* route field that is no string identifies no task
Identifier ==
    LET query == StripOf(req.path, {"/"})
        route == Get(Body, "__route", JStr(<<>>))
    IN  IF query # <<>> THEN query
        ELSE IF route.t = "str" THEN StripOf(route.s, {"/"})
        ELSE <<>>

\* the handler of each of the five task identifiers
TaskOf(id) ==
    CASE id = <<"generate">> -> "_handle_generate_quiz"
      [] id = <<"question-paper">> -> "_handle_question_paper"
      [] id = <<"generate-year-end">> -> "_handle_year_end_paper"
      [] id = <<"evaluate">> -> "_handle_evaluate"
      [] id = <<"get-hint">> -> "_handle_hint"

TaskIdentifiers ==
    { <<"generate">>, <<"question-paper">>, <<"generate-year-end">>, <<"evaluate">>, <<"get-hint">> }

DispatchedPost ==
    Done /\ req.app = "api/index.py" /\ req.app_view = "vercel_dispatch_handler" /\ req.method = "POST"

\* C9: a dispatched request runs exactly the one handler its task identifier
\* names; with an empty or unknown identifier the answer is the 404 'not found'
\* error, no handler runs and nothing is posted.
C9_DispatchExactlyOne ==
    DispatchedPost =>
        /\ Identifier \in TaskIdentifiers => ran = <<TaskOf(Identifier)>>
        /\ Identifier \notin TaskIdentifiers =>
                /\ ran = <<>>
                /\ IsJsonError(resp, 404)
                /\ resp.body.error = <<"Requested endpoint was not found.">>
                /\ prompt = <<>> /\ posts = <<>>

----------------------------------------------------------------------------
(* C10 *)

\* the generation service answered the post with status 200 and a JSON object
AnsweredWithObject ==
    /\ Done /\ req.app = "api/index.py"
    /\ posts # <<>> /\ replies # <<>>
    /\ ~replies[1].raises /\ ~RaisesForStatus(replies[1]) /\ replies[1].decodes

\* the text generated, when the answer carries one
GeneratedText == replies[1].json.candidates[1].content.parts[1].text

CarriesText ==
    /\ Has(replies[1].json, "candidates") /\ replies[1].json.candidates # <<>>
    /\ Has(replies[1].json.candidates[1], "content")
    /\ replies[1].json.candidates[1].content.parts # <<>>

\* C10: an answer without candidates gives the 500 'invalid response' error;
\* when a schema was sent and the generated text is not JSON, the response is
\* 500 with the body {error: 'Failed to parse ...'} and nothing else: neither
\* the generated text nor a success payload.
C10_UpstreamSemanticErrors ==
    AnsweredWithObject =>
        /\ ~Has(replies[1].json, "candidates") =>
                /\ IsJsonError(resp, 500)
                /\ resp.body.error = <<"Received an invalid response from the AI service.">>
        /\ ( /\ CarriesText
             /\ Has(posts[1], "generationConfig")
             /\ Has(posts[1].generationConfig, "responseSchema")
             /\ ~json_loads(GeneratedText).ok ) =>
                /\ IsJsonError(resp, 500)
                /\ resp.body.error = <<"Failed to parse LLM JSON response">>
                /\ GeneratedText \notin Range(resp.body.error)

C10_Witness ==
    /\ AnsweredWithObject
    /\ ran = <<"_handle_generate_quiz">>
    /\ CarriesText /\ GeneratedText = "{\"questions\": ["
    /\ resp.status = 500
    /\ resp.body.error = <<"Failed to parse LLM JSON response">>

C10_WitnessNoCandidates ==
    /\ AnsweredWithObject
    /\ ~Has(replies[1].json, "candidates")
    /\ resp.status = 500

----------------------------------------------------------------------------
(* C11 *)

\* the post itself failed: requests.post raised (connection refused, timeout)
UpstreamTransportFailure == replies # <<>> /\ replies[1].raises

\* C11: every upstream transport or HTTP error is answered with an error
\* response that has the upstream status code as its status and the raw
\* upstream error body in a 'details' field.
C11_UpstreamErrorCarriesDetails ==
    (Done /\ (UpstreamTransportFailure \/ UpstreamHttpFailure)) =>
        /\ resp.kind = "json"
        /\ Has(resp.body, "error") /\ Has(resp.body, "details")
        /\ resp.status = replies[1].status_code
        /\ resp.body.details = replies[1].text

----------------------------------------------------------------------------
(* C12 *)

HistoryHandlers == {"_handle_generate_quiz", "_handle_question_paper"}

\* the sentence that opens the de-duplication instruction of a handler
HistoryHeader(h) ==
    IF h = "_handle_generate_quiz"
    THEN "\nIMPORTANT: To ensure variety, do not generate any of the following questions that the student has already answered for this topic:\n"
    ELSE "\nAvoid reusing any of the following questions that the student has already seen for this subject:\n"

\* the sentence that closes it
HistoryFooter(h) ==
    IF h = "_handle_generate_quiz"
    THEN "Also, try to create questions with different patterns and structures than the ones listed above."
    ELSE "Create fresh variations with different numbers, scenarios, or phrasing wherever possible."

HasHistoryInstruction(h) == HistoryHeader(h) \in Range(prompt)

\* the instruction lists the questions of 'previous', one "- question" line
\* each, all of them, in their order, and nothing else
EnumeratesInOrder(h, previous) ==
    LET at == IndexOf(prompt, HistoryHeader(h))
        n  == Len(previous)
    IN  /\ Len(prompt) >= at + 3 * n + 1
        /\ \A k \in 1..n :
                /\ prompt[at + 3 * k - 2] = "- "
                /\ prompt[at + 3 * k - 1] = previous[k]
                /\ prompt[at + 3 * k] = "\n"
        /\ prompt[at + 3 * n + 1] = HistoryFooter(h)

\* the prompt carries the instruction for a non-empty sequence under the given
\* key of the body, and no instruction when the key is absent or its sequence
\* empty
HistoryFollowsKey(h, key) ==
    IF Get(Body, key, <<>>) # <<>>
    THEN HasHistoryInstruction(h) /\ EnumeratesInOrder(h, Body[key])
    ELSE ~HasHistoryInstruction(h)

\* C12: for generate-quiz and generate-question-paper, a request
\* with a non-empty 'previousQuestions' sequence gets a prompt with the
\* de-duplication instruction listing every prior question in order, and a
\* request without one gets a prompt without the instruction.
C12_HistoryUnderPreviousQuestions ==
    \A h \in HistoryHandlers :
        (HandledBy(h) /\ prompt # <<>>) => HistoryFollowsKey(h, "previousQuestions")

----------------------------------------------------------------------------
(* C13 *)

\* an evaluate request with N questions and N answers, N >= 1
AlignedEvaluate ==
    /\ HandledBy("_handle_evaluate")
    /\ Has(Body, "questions") /\ Has(Body, "answers")
    /\ Len(Body.questions) >= 1
    /\ Len(Body.answers) = Len(Body.questions)

\* C13: every successful evaluate request with N questions and N
\* answers is answered with an evaluation array of exactly N entries.
C13_EvaluationHasNEntries ==
    (AlignedEvaluate /\ resp.kind = "json" /\ resp.status = 200) =>
        /\ Has(resp.body, "evaluation")
        /\ Len(resp.body.evaluation) = Len(Body.questions)

----------------------------------------------------------------------------
(* C14 *)

\* a generate-quiz request that passed validation: its prompt was compiled
ValidQuiz == HandledBy("_handle_generate_quiz") /\ prompt # <<>>

McqEligibleTopics == {"Vocab MCQ", "Grammar MCQ", "Grammar Cloze", "Comprehension Cloze"}

McqOpening == "Generate a quiz with exactly 5 'single-choice' multiple-choice questions for a "

McqOptions == "Each question must have four options with exactly one correct answer. "

MixedOpening == "Generate a quiz with exactly 5 questions for a "

MixedStructure ==
    << "The quiz must have this structure: ",
       "1. Two 'single-choice' questions (select one correct answer from 4 options). ",
       "2. One 'multi-select' question (select one or more correct answers from 4 options). ",
       "3. Two 'free-text' questions (open-ended questions requiring a written answer). " >>

TemplateHeader == "\nUse the following question template for formatting:\n"

SyllabusSentence == "Ensure the questions are aligned with the Singapore MOE syllabus. "

\* the prompt asks for 5 single-choice questions of 4 options and for no
\* multi-select or free-text question
IsMcqVariant ==
    /\ prompt[2] = McqOpening
    /\ McqOptions \in Range(prompt)
    /\ MixedOpening \notin Range(prompt)
    /\ Range(MixedStructure) \cap Range(prompt) = {}

\* the prompt asks for 2 single-choice, 1 multi-select and 2 free-text
\* questions, in that order
IsMixedVariant ==
    /\ prompt[2] = MixedOpening
    /\ MixedStructure[1] \in Range(prompt)
    /\ \A k \in 1..Len(MixedStructure) :
            prompt[IndexOf(prompt, MixedStructure[1]) + k - 1] = MixedStructure[k]
    /\ McqOpening \notin Range(prompt)
    /\ McqOptions \notin Range(prompt)

\* the template of the request follows the body of the prompt
TemplateAppended ==
    /\ TemplateHeader \in Range(prompt)
    /\ IndexOf(prompt, TemplateHeader) = IndexOf(prompt, SyllabusSentence) + 1
    /\ PieceAfter(prompt, TemplateHeader) = Body.template

\* C14: the prompt of a valid generate-quiz request is the all-multiple-choice
\* variant exactly when the subject is "English" and the topic is one of the
\* four MCQ topics, and the mixed variant (2 single-choice, 1 multi-select, 2
\* free-text, in that order) in every other case; a supplied template is
\* appended when the subject is "English" and never otherwise.
C14_QuizPromptVariant ==
    ValidQuiz =>
        /\ IF Body.subject = "English" /\ Body.topic \in McqEligibleTopics
           THEN IsMcqVariant
           ELSE IsMixedVariant
        /\ IF Body.subject = "English" /\ Get(Body, "template", "") # ""
           THEN TemplateAppended
           ELSE TemplateHeader \notin Range(prompt)

C14_Witness ==
    /\ ValidQuiz
    /\ Body.subject = "English" /\ Body.topic = "Grammar Cloze"
    /\ Has(Body, "template") /\ Body.template = "Fill in the blank: ____"
    /\ IsMcqVariant
    /\ TemplateAppended
    /\ posts # <<>>

C14_WitnessMixed ==
    /\ ValidQuiz
    /\ Body.subject = "English" /\ Body.topic = "Fractions"
    /\ IsMixedVariant

C14_WitnessTemplateDropped ==
    /\ ValidQuiz
    /\ Body.subject = "Science" /\ Body.topic = "Vocab MCQ"
    /\ Has(Body, "template") /\ Body.template # ""
    /\ IsMixedVariant
    /\ TemplateHeader \notin Range(prompt)

----------------------------------------------------------------------------
(* C15 *)

\* the one call to the generation service failed: the post raised, the answer
\* was an HTTP error, or its body did not decode
UpstreamFailure ==
    /\ replies # <<>>
    /\ replies[1].raises \/ RaisesForStatus(replies[1]) \/ ~replies[1].decodes

\* C15: a request makes at most one call to the generation service, whether
\* the call is still unanswered, was answered or failed; a request answered
\* before the call makes none, and a request whose call failed ends with an
\* error response after that one call.
C15_AtMostOneOutboundCall ==
    /\ Len(posts) <= 1
    /\ Len(replies) <= Len(posts)
    /\ pc = "received" => posts = <<>>
    /\ pc = "awaiting_reply" => (Len(posts) = 1 /\ replies = <<>> /\ resp = NoResponse)
    /\ Done => Len(replies) = Len(posts)
    /\ (Done /\ UpstreamFailure) =>
            /\ Len(posts) = 1
            /\ resp.kind = "json" /\ resp.status # 200

C15_Witness ==
    /\ HandledBy("_handle_year_end_paper")
    /\ UpstreamFailure /\ replies[1].status_code = 503
    /\ Len(posts) = 1
    /\ resp.status = 503

\* the call was made and the service has not answered
C15_WitnessUnanswered ==
    /\ pc = "awaiting_reply"
    /\ req.app_view = "generate_handler"
    /\ Len(posts) = 1 /\ replies = <<>>
    /\ resp = NoResponse

C15_WitnessTransport ==
    /\ Done /\ req.app = "index.py" /\ ran = <<"get_hint">>
    /\ replies # <<>> /\ replies[1].raises
    /\ Len(posts) = 1
    /\ resp.status = 500

====
